---- MODULE Spec2Model ----
(***************************************************************************)
(* A model of the asset core of amethyst_assets:                           *)
(*   - new_storage.rs : AssetStorage (slot map LoadHandle -> AssetState,   *)
(*                      deferred drop queue to_drop)                       *)
(*   - processor.rs   : ProcessingQueue (processed / requeue) and the      *)
(*                      Processor system that runs it once per frame       *)
(*   - new_loader.rs  : LoaderWithStorage (the ref-op channel and process) *)
(*   - storage.rs     : the older bitset storage with Arc handles          *)
(* Each subsystem has its own specification; the variables of the other    *)
(* subsystems stay at their initial values under it.                       *)
(***************************************************************************)
EXTENDS Integers, Sequences, FiniteSets, TLC

\* ------------------------------------------------------------------ bounds
NumHandles == 2
MaxEntries == 2
MaxPasses == 1
MaxIds == 2
MaxHeld == 2
NumAssets == 2
MaxOps == 3
MaxFailures == 1
NumTypes == 2
MaxInits == 2
MaxCalls == 2
MaxArcs == 3

\* AssetState.version is a u32. TLC's integers stop at 2^31 - 1, so a u32 is
\* kept as two 16-bit limbs [hi, lo] standing for hi * 2^16 + lo.
Limb == 65536
U32(n) == [hi |-> n \div Limb, lo |-> n % Limb]
U32Max == [hi |-> Limb - 1, lo |-> Limb - 1]
U32Less(a, b) == a.hi < b.hi \/ (a.hi = b.hi /\ a.lo < b.lo)

Handles == 1..NumHandles

\* Option<T>: None is <<>>, Some(x) is <<x>>
None == <<>>
Some(x) == <<x>>

\* ------------------------------------------------------------------ state
VARIABLES
    assets,       \* AssetStorage.assets: SecondaryMap LoadHandle -> AssetState
    to_drop,      \* AssetStorage.to_drop: SegQueue<A>
    processed,    \* ProcessingQueue.processed: SegQueue<Processed<T>>
    requeue,      \* ProcessingQueue.requeue: Vec<Processed<T>>
    pc,           \* position of the Processor system inside run()
    panicked,     \* the frame thread unwound ("attempt to add with overflow")
    nextEid,      \* history: number of enqueue calls made so far
    applied,      \* history: per entry, calls of f in the current process call
    fcalls,       \* history: per entry, calls of f over all process calls
    pushes,       \* history: per entry, pushes onto processed
    outcome,      \* history: per entry, what the last call of f returned
    enq,          \* history: per entry, the entry as enqueue pushed it
    prior,        \* history: the storage the run started from
    snapshot,     \* history: processed when the current process call began
    last,         \* history: what the last step did, and the storage before it
    dropped       \* history: the assets handed to drop_fn, in order

qvars == <<assets, to_drop, processed, requeue, pc, panicked, nextEid, applied,
           fcalls, pushes, outcome, enq, prior, snapshot, last, dropped>>

\* The bitset storage. A Handle is an Arc<u32>: every Arc allocation has a
\* name (its index in arcs) and arcs[a] is the u32 it holds.
VARIABLES
    s_assets,        \* AssetStorage.assets: VecStorage<A>, id -> asset
    bitset,          \* AssetStorage.bitset
    handles,         \* AssetStorage.handles: Vec<Handle<A>>
    handle_alloc,    \* AssetStorage.handle_alloc.store_count
    s_processed,     \* AssetStorage.processed
    unused_handles,  \* AssetStorage.unused_handles
    s_requeue,       \* AssetStorage.requeue
    s_to_drop,       \* AssetStorage.to_drop
    arcs,            \* the Arc<u32> allocations made so far: arc -> id
    held,            \* per arc, the strong Handles held outside the storage
    weak,            \* the arcs a WeakHandle outside the storage points at
    s_pc,            \* position inside process_custom_drop
    skip,            \* local `skip` of the sweep loop
    sweep_i,         \* the index position(is_unique) returned
    s_nextEid,       \* history: entries pushed so far
    notes,           \* history: per entry, the calls made on its tracker
    s_outcome,       \* history: per entry, the last result of f and its tracker
    zero_run,        \* history: per handle id, 0: a user holds a strong Handle or
                     \*   held one in this tick, 1: none since the current
                     \*   process call began, 2: none through a whole call
    tick_end         \* history: LoaderWithStorage::process has returned and the
                     \*   storage has not been processed since

svars == <<s_assets, bitset, handles, handle_alloc, s_processed, unused_handles,
           s_requeue, s_to_drop, arcs, held, weak, s_pc, skip, sweep_i,
           s_nextEid, notes, s_outcome, zero_run, tick_end>>

\* LoaderWithStorage (new_loader.rs)
VARIABLES
    ref_chan,     \* the unbounded channel ref_sender -> ref_receiver
    loader,       \* LoaderWithStorage.loader: the Load Tracker's maps
    l_pc,         \* position inside LoaderWithStorage::process
    live,         \* history: per asset, the strong user handles alive
    nsent,        \* history: number of ref-ops sent so far
    applied_n,    \* history: per asset, send number of the last op applied
    misordered,   \* history: an op was applied after a later op of its asset
    expect,       \* history: per asset whose pending ops were one Increase
                  \*   then one Decrease when the current process call began
                  \*   and that saw no send since: the count at that moment
    churn,        \* history: per asset, Decrease to 0 / then Increase, this call
    freed,        \* history: per asset, 1 + the handle id last passed to free
                  \*   and not handed out by allocate since (0: none)
    imported,     \* history: the import that came to an end in the current
                  \*   process call, with the storage as it was before
    query         \* history: the last get_asset_handle call and what it returned

lvars == <<ref_chan, loader, l_pc, live, nsent, applied_n, misordered, expect,
           churn, freed, imported, query>>

\* amethyst_core::specs::Resources, the host's resource container, as far as
\* the loader uses it
VARIABLES
    resources,    \* per asset type: None, or Some(the AssetStorage<A> resource)
    res_before,   \* history: resources when init_world was last called
    inits,        \* history: number of init_world calls made so far
    res_call      \* history: the last WorldStorages::update_asset call

rvars == <<resources, res_before, inits, res_call>>

\* what the steps of one subsystem leave alone
NotQueue == <<svars, lvars, rvars>>
NotStorage == <<qvars, lvars, rvars>>
NotLoader == <<qvars, rvars>>

Eids == 1..MaxEntries

\* the u32 ids handle_alloc gives out
Ids == 0..(MaxIds - 1)

\* AssetState { version, asset }
AssetState(version, asset) == [version |-> version, asset |-> asset]

\* the asset a slot holds after earlier frames (one per handle)
PriorAsset(h) == 0 - h

\* Storages earlier frames can have left behind: a slot is empty or has been
\* replaced so often that its version is u32::MAX.
PriorStorages ==
    { [h \in D |-> AssetState(U32Max, PriorAsset(h))] : D \in SUBSET Handles }

\* Result<T>: Ok(d) or Err
NoData == [n |-> 0, passes |-> 0, bad |-> FALSE]
Ok(d) == [ok |-> TRUE, d |-> d]
Err == [ok |-> FALSE, d |-> NoData]

\* Processed { data, handle, tracker }; eid is the history name of the entry
Processed(eid, data, handle, tracker) ==
    [eid |-> eid, data |-> data, handle |-> handle, tracker |-> tracker]
NoEntry == Processed(0, Err, 0, None)

\* ProcessingState / the Result that the transform returns
Loaded(a) == [kind |-> "Loaded", asset |-> a, data |-> NoData]
Loading(d) == [kind |-> "Loading", asset |-> 0, data |-> d]
Failed == [kind |-> "Err", asset |-> 0, data |-> NoData]
NoResult == [kind |-> "none", asset |-> 0, data |-> NoData]

\* history record of a step: op is "update_asset" (the Loaded arm), "loading",
\* "err" or "none"; assets and to_drop are the storage before the step
Event(op, eid, handle, asset) ==
    [op |-> op, eid |-> eid, handle |-> handle, asset |-> asset,
     assets |-> assets, to_drop |-> to_drop]
NoEvent == [op |-> "none", eid |-> 0, handle |-> 0, asset |-> 0,
            assets |-> <<>>, to_drop |-> <<>>]

QueueStart(storage) ==
    /\ assets = storage
    /\ to_drop = <<>>
    /\ processed = <<>>
    /\ requeue = <<>>
    /\ pc = "idle"
    /\ panicked = FALSE
    /\ nextEid = 1
    /\ applied = [e \in Eids |-> 0]
    /\ fcalls = [e \in Eids |-> 0]
    /\ pushes = [e \in Eids |-> 0]
    /\ outcome = [e \in Eids |-> NoResult]
    /\ enq = [e \in Eids |-> NoEntry]
    /\ prior = assets
    /\ snapshot = <<>>
    /\ last = NoEvent
    /\ dropped = <<>>

QueueInit == \E storage \in PriorStorages : QueueStart(storage)

\* ------------------------------------------------------ new_storage.rs
\* SecondaryMap::remove / insert
MapRemove(m, k) == [x \in (DOMAIN m) \ {k} |-> m[x]]
MapInsert(m, k, v) == [x \in (DOMAIN m) \cup {k} |-> IF x = k THEN v ELSE m[x]]

\* version + 1 on a u32 in a build without overflow checks (wrapping)
WrappingInc(v) ==
    IF v.lo < Limb - 1 THEN [hi |-> v.hi, lo |-> v.lo + 1]
    ELSE [hi |-> (v.hi + 1) % Limb, lo |-> 0]

\* update_asset written so that the map is rebuilt from the new slot alone:
\* every other handle's slot is lost by the call
update_asset_clobber(handle, asset) ==
    LET had == handle \in DOMAIN assets
        version == IF had THEN assets[handle].version ELSE U32(0)
    IN  /\ to_drop' = IF had THEN Append(to_drop, assets[handle].asset) ELSE to_drop
        /\ \/ /\ assets' = MapInsert(<< >>, handle,
                                     AssetState(WrappingInc(version), asset))
              /\ panicked' = FALSE
           \/ /\ version = U32Max
              /\ assets' = << >>
              /\ panicked' = TRUE

\* update_asset letting the old asset go out of scope instead of pushing it
\* onto to_drop: it is destroyed inside the call
update_asset_drop_in_place(handle, asset) ==
    LET version == IF handle \in DOMAIN assets THEN assets[handle].version ELSE U32(0)
    IN  /\ to_drop' = to_drop
        /\ assets' = MapInsert(MapRemove(assets, handle), handle,
                               AssetState(WrappingInc(version), asset))
        /\ panicked' = FALSE

\* AssetStorage::update_asset. At version = u32::MAX the addition overflows:
\* a build without overflow checks wraps to 0, a build with them panics after
\* the slot was removed and the old asset pushed onto to_drop.
update_asset(handle, asset) ==
    LET had == handle \in DOMAIN assets
        version == IF had THEN assets[handle].version ELSE U32(0)
    IN  /\ to_drop' = IF had THEN Append(to_drop, assets[handle].asset) ELSE to_drop
        /\ \/ /\ assets' = MapInsert(MapRemove(assets, handle), handle,
                                     AssetState(WrappingInc(version), asset))
              /\ panicked' = FALSE
           \/ /\ version = U32Max
              /\ assets' = MapRemove(assets, handle)
              /\ panicked' = TRUE

is_loaded(handle) == handle \in DOMAIN assets
get(handle) == IF handle \in DOMAIN assets THEN Some(assets[handle].asset) ELSE None
get_version(handle) == IF handle \in DOMAIN assets THEN Some(assets[handle].version) ELSE None
get_asset_with_version(handle) ==
    IF handle \in DOMAIN assets
    THEN Some(<<assets[handle].asset, assets[handle].version>>) ELSE None

\* process_custom_drop calling drop_fn on each asset without popping it
process_custom_drop_peek ==
    /\ dropped' = dropped \o to_drop
    /\ to_drop' = to_drop

\* AssetStorage::process_custom_drop: drain to_drop, calling drop_fn on each
process_custom_drop ==
    /\ dropped' = dropped \o to_drop
    /\ to_drop' = <<>>

\* --------------------------------------------------------- processor.rs
\* The transform f (Into::into in Processor::run). The intermediate says how
\* many more passes it needs and whether its conversion fails at the end.
f(d) ==
    IF d.passes > 0 THEN Loading([d EXCEPT !.passes = @ - 1])
    ELSE IF d.bad THEN Failed
    ELSE Loaded(d.n)

\* data.and_then(|d| f(d))
and_then(data) == IF data.ok THEN f(data.d) ELSE Failed

Bump(fn, e) == [fn EXCEPT ![e] = @ + 1]

\* ProcessingQueue::enqueue: push Processed { data: Ok(data), handle, tracker: None }
enqueue(handle, data) ==
    /\ processed' = Append(processed, Processed(nextEid, Ok(data), handle, None))
    /\ enq' = [enq EXCEPT ![nextEid] = Processed(nextEid, Ok(data), handle, None)]
    /\ pushes' = Bump(pushes, nextEid)
    /\ nextEid' = nextEid + 1

\* the arm Ok(ProcessingState::Loaded(x)) followed by storage.update_asset
arm_loaded(p, x) ==
    /\ update_asset(p.handle, x)
    /\ last' = Event("update_asset", p.eid, p.handle, x)
    /\ processed' = Tail(processed)
    /\ UNCHANGED requeue

\* mutant of arm_loading: the entry goes straight back onto processed
arm_loading_direct(p, x) ==
    /\ processed' = Append(Tail(processed), Processed(p.eid, Ok(x), p.handle, p.tracker))
    /\ last' = Event("loading", p.eid, p.handle, 0)
    /\ UNCHANGED <<assets, to_drop, panicked, requeue>>

\* the arm Ok(ProcessingState::Loading(x)): requeue.push(..); continue
arm_loading(p, x) ==
    /\ requeue' = Append(requeue, Processed(p.eid, Ok(x), p.handle, p.tracker))
    /\ processed' = Tail(processed)
    /\ last' = Event("loading", p.eid, p.handle, 0)
    /\ UNCHANGED <<assets, to_drop, panicked>>

\* mutant of arm_err: the failed entry is kept for another try
arm_err_requeue(p) ==
    /\ requeue' = Append(requeue, p)
    /\ processed' = Tail(processed)
    /\ last' = Event("err", p.eid, p.handle, 0)
    /\ UNCHANGED <<assets, to_drop, panicked>>

\* the arm Err(e): continue
arm_err(p) ==
    /\ processed' = Tail(processed)
    /\ last' = Event("err", p.eid, p.handle, 0)
    /\ UNCHANGED <<assets, to_drop, panicked, requeue>>

\* mutant of requeue_drain: the list is cleared and its entries are lost
requeue_drain_lost ==
    /\ requeue' = <<>>
    /\ UNCHANGED <<processed, pushes>>

\* the requeue list going back onto the queue last entry first
requeue_drain_rev ==
    /\ processed' = processed \o [k \in 1..Len(requeue) |-> requeue[Len(requeue) + 1 - k]]
    /\ requeue' = <<>>
    /\ pushes' = [e \in Eids |->
                    pushes[e] + Cardinality({i \in DOMAIN requeue : requeue[i].eid = e})]

\* for p in requeue.drain(..) { self.processed.push(p) }
requeue_drain ==
    /\ processed' = processed \o requeue
    /\ requeue' = <<>>
    /\ pushes' = [e \in Eids |->
                    pushes[e] + Cardinality({i \in DOMAIN requeue : requeue[i].eid = e})]

\* ------------------------------------------------------------- actions
\* a producer thread calls enqueue
Enqueue ==
    /\ ~panicked
    /\ nextEid <= MaxEntries
    /\ \E h \in Handles, passes \in 0..MaxPasses, bad \in BOOLEAN :
            enqueue(h, [n |-> nextEid, passes |-> passes, bad |-> bad])
    /\ last' = NoEvent
    /\ UNCHANGED <<assets, to_drop, requeue, pc, panicked, applied, fcalls,
                   outcome, prior, snapshot, dropped>>
    /\ UNCHANGED NotQueue

\* Processor::run is entered: queue.process(..) starts
RunBegin ==
    /\ ~panicked
    /\ pc = "idle"
    /\ pc' = "process"
    /\ applied' = [e \in Eids |-> 0]
    /\ snapshot' = processed
    /\ last' = NoEvent
    /\ UNCHANGED <<assets, to_drop, processed, requeue, panicked, nextEid,
                   fcalls, pushes, outcome, enq, prior, dropped>>
    /\ UNCHANGED NotQueue

\* one iteration of `while let Some(processed) = self.processed.try_pop()`
ProcessPop ==
    /\ ~panicked
    /\ pc = "process"
    /\ processed # <<>>
    /\ LET p == Head(processed)
           r == and_then(p.data)
       IN  /\ applied' = IF p.data.ok THEN Bump(applied, p.eid) ELSE applied
           /\ fcalls' = IF p.data.ok THEN Bump(fcalls, p.eid) ELSE fcalls
           /\ outcome' = [outcome EXCEPT ![p.eid] = r]
           /\ CASE r.kind = "Loaded" -> arm_loaded(p, r.asset)
                [] r.kind = "Loading" -> arm_loading(p, r.data)
                [] OTHER -> arm_err(p)
    /\ UNCHANGED <<pc, nextEid, pushes, enq, prior, snapshot, dropped>>
    /\ UNCHANGED NotQueue

\* try_pop returned None: the loop ends, the requeue list goes back on the
\* queue and process returns
ProcessReturn ==
    /\ ~panicked
    /\ pc = "process"
    /\ processed = <<>>
    /\ requeue_drain
    /\ pc' = "drop"
    /\ last' = NoEvent
    /\ UNCHANGED <<assets, to_drop, panicked, nextEid, applied, fcalls,
                   outcome, enq, prior, snapshot, dropped>>
    /\ UNCHANGED NotQueue

\* storage.process_custom_drop(|_| {}) and run returns
RunDrop ==
    /\ ~panicked
    /\ pc = "drop"
    /\ process_custom_drop
    /\ pc' = "idle"
    /\ last' = NoEvent
    /\ UNCHANGED <<assets, processed, requeue, panicked, nextEid, applied,
                   fcalls, pushes, outcome, enq, prior, snapshot>>
    /\ UNCHANGED NotQueue

QueueNext == Enqueue \/ RunBegin \/ ProcessPop \/ ProcessReturn \/ RunDrop

\* ======================================================== storage.rs
StorageInit ==
    /\ s_assets = <<>>
    /\ bitset = {}
    /\ handles = <<>>
    /\ handle_alloc = 0
    /\ s_processed = <<>>
    /\ unused_handles = <<>>
    /\ s_requeue = <<>>
    /\ s_to_drop = <<>>
    /\ arcs = <<>>
    /\ held = <<>>
    /\ weak = {}
    /\ s_pc = "idle"
    /\ skip = 0
    /\ sweep_i = 0
    /\ s_nextEid = 1
    /\ notes = [e \in Eids |-> <<>>]
    /\ s_outcome = [e \in Eids |-> [kind |-> "none", tracker |-> None]]
    /\ zero_run = [i \in Ids |-> 0]
    /\ tick_end = FALSE

\* Processed::Asset { data, handle, name, tracker }; the name is only logged.
\* A tracker is named after the entry it belongs to.
ProcessedAsset(eid, data, handle, tracker) ==
    [eid |-> eid, data |-> data, handle |-> handle, tracker |-> tracker]

Occ(q, a) == Cardinality({i \in DOMAIN q : q[i] = a})
OccHandle(q, a) == Cardinality({i \in DOMAIN q : q[i].handle = a})

\* Arc::strong_count(&handle.id): the Handles outside the storage, in the
\* handles list, on the unused list and inside queued entries
strong_count(a) ==
    held[a] + Occ(handles, a) + Occ(unused_handles, a)
            + OccHandle(s_processed, a) + OccHandle(s_requeue, a)

\* no strong Handle to id i is held outside the storage
NoUser(i) == \A a \in DOMAIN arcs : arcs[a] = i => held[a] = 0

\* Handle::is_unique
is_unique(a) == strong_count(a) = 1

\* Handle::id
id(a) == arcs[a]

\* AssetStorage::is_loaded / get (storage.rs)
s_is_loaded(i) == i \in bitset
s_get(a) == IF id(a) \in bitset THEN Some(s_assets[id(a)]) ELSE None

\* the id of the handle AssetStorage::allocate hands out next
allocated_id == IF unused_handles # <<>> THEN id(Head(unused_handles)) ELSE handle_alloc

\* the arc AssetStorage::allocate hands out next
allocated == IF unused_handles # <<>> THEN Head(unused_handles) ELSE Len(arcs) + 1

\* AssetStorage::allocate: an unused handle, else allocate_new; the
\* caller owns the returned Handle
allocate ==
    IF unused_handles # <<>>
    THEN /\ unused_handles' = Tail(unused_handles)
         /\ held' = [held EXCEPT ![Head(unused_handles)] = @ + 1]
         /\ UNCHANGED <<arcs, handle_alloc>>
    ELSE /\ arcs' = Append(arcs, handle_alloc)
         /\ held' = Append(held, 1)
         /\ handle_alloc' = handle_alloc + 1
         /\ UNCHANGED unused_handles

\* tracker.success() / tracker.fail(..) on an Option<Box<dyn Tracker>>
notify(tracker, what) ==
    notes' = IF tracker = None THEN notes
             ELSE [notes EXCEPT ![tracker[1]] = Append(@, what)]

\* the lines after the match: bitset.add(id), handles.push or
\* to_drop.push(assets.remove(id)), assets.insert(id, asset)
commit(handle, asset) ==
    LET i == id(handle) IN
    /\ bitset' = bitset \cup {i}
    /\ IF i \notin bitset
       THEN /\ handles' = Append(handles, handle)
            /\ UNCHANGED s_to_drop
       ELSE /\ s_to_drop' = Append(s_to_drop, s_assets[i])
            /\ UNCHANGED handles
    /\ s_assets' = MapInsert(s_assets, i, asset)

\* the arm Ok(ProcessingState::Loaded(x)) and the commit that follows it
s_arm_loaded(p, x) ==
    /\ notify(p.tracker, IF is_unique(p.handle) THEN "fail" ELSE "success")
    /\ commit(p.handle, x)
    /\ s_processed' = Tail(s_processed)
    /\ UNCHANGED s_requeue

\* the arm Ok(ProcessingState::Loading(x))
s_arm_loading(p, x) ==
    /\ s_requeue' = Append(s_requeue, ProcessedAsset(p.eid, Ok(x), p.handle, p.tracker))
    /\ s_processed' = Tail(s_processed)
    /\ UNCHANGED <<notes, bitset, handles, s_to_drop, s_assets>>

\* the arm Err(e)
s_arm_err(p) ==
    /\ notify(p.tracker, "fail")
    /\ s_processed' = Tail(s_processed)
    /\ UNCHANGED <<s_requeue, bitset, handles, s_to_drop, s_assets>>

\* Vec::swap_remove(i), 1-based
swap_remove(v, i) ==
    [k \in 1..(Len(v) - 1) |-> IF k = i THEN v[Len(v)] ELSE v[k]]

\* handles.iter().skip(skip).position(Handle::is_unique), as the 1-based
\* index into handles, 0 for None
position_unique ==
    LET found == {i \in (skip + 1)..Len(handles) : is_unique(handles[i])}
    IN  IF found = {} THEN 0 ELSE CHOOSE i \in found : \A k \in found : i <= k

\* the body of the sweep loop for handles[i]. assets.remove(id) is an unsafe
\* call on an UnprotectedStorage: on a slot that holds nothing (a second
\* handle with the id of a slot the sweep has emptied) it reads a value that
\* is not there, and what is pushed onto to_drop is any asset or garbage (0)
sweep_remove(i) ==
    LET handle == handles[i] IN
    /\ skip' = i - 1
    /\ handles' = swap_remove(handles, i)
    /\ IF id(handle) \in DOMAIN s_assets
       THEN s_to_drop' = Append(s_to_drop, s_assets[id(handle)])
       ELSE \E x \in {0} \cup Eids : s_to_drop' = Append(s_to_drop, x)
    /\ s_assets' = MapRemove(s_assets, id(handle))
    /\ bitset' = bitset \ {id(handle)}
    /\ arcs' = Append(arcs, id(handle))
    /\ held' = Append(held, 0)
    /\ unused_handles' = Append(unused_handles, Len(arcs) + 1)

\* ------------------------------------------------------ storage.rs actions
\* a caller (the loader) takes a handle from the storage
SAllocate ==
    /\ s_pc = "idle"
    /\ unused_handles = <<>> => handle_alloc < MaxIds
    /\ allocate
    /\ UNCHANGED <<s_assets, bitset, handles, s_processed, s_requeue, s_to_drop,
                   weak, s_pc, skip, sweep_i, s_nextEid, notes, s_outcome, tick_end>>
    /\ zero_run' = [zero_run EXCEPT ![allocated_id] = 0]
    /\ UNCHANGED NotStorage

\* Handle::clone
SClone ==
    /\ \E a \in DOMAIN arcs :
          /\ held[a] > 0 /\ held[a] < MaxHeld
          /\ held' = [held EXCEPT ![a] = @ + 1]
    /\ UNCHANGED <<s_assets, bitset, handles, handle_alloc, s_processed,
                   unused_handles, s_requeue, s_to_drop, arcs, weak, s_pc, skip,
                   sweep_i, s_nextEid, notes, s_outcome, zero_run, tick_end>>
    /\ UNCHANGED NotStorage

\* a Handle outside the storage is dropped
SDrop ==
    /\ \E a \in DOMAIN arcs :
          /\ held[a] > 0
          /\ held' = [held EXCEPT ![a] = @ - 1]
    /\ UNCHANGED <<s_assets, bitset, handles, handle_alloc, s_processed,
                   unused_handles, s_requeue, s_to_drop, arcs, weak, s_pc, skip,
                   sweep_i, s_nextEid, notes, s_outcome, zero_run, tick_end>>
    /\ UNCHANGED NotStorage

\* Handle::downgrade
SDowngrade ==
    /\ \E a \in DOMAIN arcs :
          /\ held[a] > 0 /\ a \notin weak
          /\ weak' = weak \cup {a}
    /\ UNCHANGED <<s_assets, bitset, handles, handle_alloc, s_processed,
                   unused_handles, s_requeue, s_to_drop, arcs, held, s_pc, skip,
                   sweep_i, s_nextEid, notes, s_outcome, zero_run, tick_end>>
    /\ UNCHANGED NotStorage

\* WeakHandle::upgrade returning Some: Weak::upgrade succeeds while the
\* strong count is not zero
SUpgrade ==
    /\ \E a \in weak :
          /\ strong_count(a) > 0 /\ held[a] < MaxHeld
          /\ held' = [held EXCEPT ![a] = @ + 1]
          /\ zero_run' = [zero_run EXCEPT ![id(a)] = 0]
    /\ UNCHANGED <<s_assets, bitset, handles, handle_alloc, s_processed,
                   unused_handles, s_requeue, s_to_drop, arcs, weak, s_pc, skip,
                   sweep_i, s_nextEid, notes, s_outcome, tick_end>>
    /\ UNCHANGED NotStorage

\* a producer pushes Processed::Asset onto `processed` with a clone of a Handle
\* it holds
SEnqueue ==
    /\ s_nextEid <= MaxEntries
    /\ \E a \in DOMAIN arcs :
          /\ held[a] > 0
          /\ \E data \in {Err} \cup { Ok([n |-> s_nextEid, passes |-> ps, bad |-> FALSE]) :
                                        ps \in 0..MaxPasses },
                tracker \in {None, Some(s_nextEid)} :
                s_processed' = Append(s_processed,
                                      ProcessedAsset(s_nextEid, data, a, tracker))
    /\ s_nextEid' = s_nextEid + 1
    /\ UNCHANGED <<s_assets, bitset, handles, handle_alloc, unused_handles,
                   s_requeue, s_to_drop, arcs, held, weak, s_pc, skip, sweep_i,
                   notes, s_outcome, zero_run, tick_end>>
    /\ UNCHANGED NotStorage

\* process_custom_drop is entered; it takes the storage as &mut self, so it
\* never overlaps LoaderWithStorage::process, which fetches the same storage
SProcessBegin ==
    /\ s_pc = "idle"
    /\ l_pc = "idle"
    /\ s_pc' = "drain"
    /\ tick_end' = FALSE
    /\ UNCHANGED <<s_assets, bitset, handles, handle_alloc, s_processed,
                   unused_handles, s_requeue, s_to_drop, arcs, held, weak, skip,
                   sweep_i, s_nextEid, notes, s_outcome>>
    /\ zero_run' = [i \in Ids |-> IF ~NoUser(i) THEN 0
                                   ELSE IF zero_run[i] = 0 THEN 1 ELSE zero_run[i]]
    /\ UNCHANGED NotStorage

\* one iteration of `while let Some(processed) = self.processed.try_pop()`
SDrainPop ==
    /\ s_pc = "drain"
    /\ s_processed # <<>>
    /\ LET p == Head(s_processed)
           r == and_then(p.data)
       IN  /\ s_outcome' = [s_outcome EXCEPT
                             ![p.eid] = [kind |-> r.kind, tracker |-> p.tracker]]
           /\ CASE r.kind = "Loaded" -> s_arm_loaded(p, r.asset)
                [] r.kind = "Loading" -> s_arm_loading(p, r.data)
                [] OTHER -> s_arm_err(p)
    /\ UNCHANGED <<handle_alloc, unused_handles, arcs, held, weak, s_pc, skip,
                   sweep_i, s_nextEid, zero_run, tick_end>>
    /\ UNCHANGED NotStorage

\* the loop ends; the requeue list goes back on the queue; count = skip = 0
SDrainEnd ==
    /\ s_pc = "drain"
    /\ s_processed = <<>>
    /\ s_processed' = s_requeue
    /\ s_requeue' = <<>>
    /\ skip' = 0
    /\ s_pc' = "sweep"
    /\ UNCHANGED <<s_assets, bitset, handles, handle_alloc, unused_handles,
                   s_to_drop, arcs, held, weak, sweep_i, s_nextEid, notes,
                   s_outcome, zero_run, tick_end>>
    /\ UNCHANGED NotStorage

\* the condition of the sweep loop: position(Handle::is_unique) returns Some(i)
SSweepFind ==
    /\ s_pc = "sweep"
    /\ position_unique # 0
    /\ sweep_i' = position_unique
    /\ s_pc' = "remove"
    /\ UNCHANGED <<s_assets, bitset, handles, handle_alloc, s_processed,
                   unused_handles, s_requeue, s_to_drop, arcs, held, weak, skip,
                   s_nextEid, notes, s_outcome, zero_run, tick_end>>
    /\ UNCHANGED NotStorage

\* the body of the sweep loop
SSweepRemove ==
    /\ s_pc = "remove"
    /\ sweep_remove(sweep_i)
    /\ sweep_i' = 0
    /\ s_pc' = "sweep"
    /\ UNCHANGED <<handle_alloc, s_processed, s_requeue, weak, s_nextEid, notes,
                   s_outcome, zero_run, tick_end>>
    /\ UNCHANGED NotStorage

\* position returns None: the sweep loop ends, every asset on to_drop is
\* popped and handed to drop_fn, and process_custom_drop returns
SDropAll ==
    /\ s_pc = "sweep"
    /\ position_unique = 0
    /\ s_to_drop' = <<>>
    /\ s_pc' = "idle"
    /\ UNCHANGED <<s_assets, bitset, handles, handle_alloc, s_processed,
                   unused_handles, s_requeue, arcs, held, weak, skip, sweep_i,
                   s_nextEid, notes, s_outcome, tick_end>>
    /\ zero_run' = [i \in Ids |-> IF zero_run[i] = 1 /\ NoUser(i) THEN 2
                                   ELSE zero_run[i]]
    /\ UNCHANGED NotStorage

\* AssetStorage::clone_asset(handle) on a loaded asset: allocate, bitset.add(id),
\* handles.push(h.clone()), assets.insert(id, asset); the caller owns h. It
\* takes &mut self, so it never runs inside process_custom_drop.
SCloneAsset ==
    /\ s_pc = "idle"
    /\ Len(arcs) < MaxArcs
    /\ unused_handles = <<>> => handle_alloc < MaxIds
    /\ \E a \in DOMAIN arcs :
          /\ held[a] > 0
          /\ s_get(a) # None
          /\ allocate
          /\ bitset' = bitset \cup {allocated_id}
          /\ handles' = Append(handles, allocated)
          /\ s_assets' = MapInsert(s_assets, allocated_id, s_get(a)[1])
    /\ zero_run' = [zero_run EXCEPT ![allocated_id] = 0]
    /\ UNCHANGED <<s_processed, s_requeue, s_to_drop, weak, s_pc, skip, sweep_i,
                   s_nextEid, notes, s_outcome, tick_end>>
    /\ UNCHANGED NotStorage

StorageNext ==
    \/ SAllocate \/ SClone \/ SDrop \/ SDowngrade \/ SUpgrade \/ SEnqueue
    \/ SProcessBegin \/ SDrainPop \/ SDrainEnd \/ SSweepFind \/ SSweepRemove
    \/ SDropAll

\* ======================================================== new_loader.rs
AssetIds == 1..NumAssets

\* RefOp::Increase(id) / RefOp::Decrease(id); n is the history number of the send
RefOp(op, i, n) == [op |-> op, id |-> i, n |-> n]

\* the asset types A submitted to the inventory, by number
Types == 1..NumTypes

\* u128::to_le_bytes, for uuids below 2^16: low byte first
Byte == 256
to_le_bytes(u) == <<u % Byte, u \div Byte>>

\* A::UUID and A::Data::UUID of asset type k, and a uuid of no type
ASSET_UUID(k) == 255 + k
DATA_UUID(k) == 511 + k
NO_UUID == 0

\* create_asset_type::<A>()
create_asset_type(k) ==
    [data_uuid |-> to_le_bytes(DATA_UUID(k)), asset_uuid |-> to_le_bytes(ASSET_UUID(k))]

\* AssetStorageMap::new: storages_by_data_uuid as the set of its keys and the
\* lookup .get(key) (None when the key is absent)
storages_by_data_uuid == {create_asset_type(k).data_uuid : k \in Types}

\* .get(key) answering with the first registered type whatever the key
storages_get_first(key) ==
    IF key \in storages_by_data_uuid THEN Some(create_asset_type(1)) ELSE None

storages_get(key) ==
    IF key \in storages_by_data_uuid
    THEN Some(CHOOSE t \in {create_asset_type(k) : k \in Types} : t.data_uuid = key)
    ELSE None

\* the data type ids the import source may name
DataTypeIds == storages_by_data_uuid \cup {to_le_bytes(NO_UUID)}

\* The Load Tracker behind `loader: T` (atelier_loader::Loader), per AssetId:
\* reference count, load state, grace mark (0 none, 1 reached zero in this
\* tick, 2 stayed zero through a tick), the storage handle it holds (an arc,
\* 0 for none), the number of import requests made, whether an import request
\* is outstanding, the number of imports that failed, the data type uuid the
\* import source gave for the asset, and whether the bytes of the current
\* request arrived while the reference count was 0.
LoaderDefault ==
    [refs |-> [i \in AssetIds |-> 0],
     state |-> [i \in AssetIds |-> "NotRequested"],
     grace |-> [i \in AssetIds |-> 0],
     handle |-> [i \in AssetIds |-> 0],
     requests |-> [i \in AssetIds |-> 0],
     pending |-> [i \in AssetIds |-> FALSE],
     failures |-> [i \in AssetIds |-> 0],
     dtype |-> [i \in AssetIds |-> NO_UUID],
     orphan |-> [i \in AssetIds |-> FALSE]]

\* LoadStatus::Error(_), LoadStatus::DoesNotExist
FailedStatus == {"Error", "DoesNotExist"}

\* history values: no pair under watch, no Decrease to 0 in this call
NoPair == 0 - 1
NoChurn == [st |-> "none", requests |-> 0, handle |-> 0]
NoQuery == [asset |-> 0, type |-> 0, result |-> None]
NoImport == [asset |-> 0, outcome |-> "none", processed |-> <<>>, assets |-> <<>>,
             bitset |-> {}, handles |-> <<>>]

\* the ops for asset i in channel q, oldest first
OpsOf(q, i) == SelectSeq(q, LAMBDA o : o.id = i)

\* LoaderWithStorage::default
LoaderInit ==
    /\ ref_chan = <<>>
    /\ loader = LoaderDefault
    /\ l_pc = "idle"
    /\ live = [i \in AssetIds |-> 0]
    /\ nsent = 0
    /\ applied_n = [i \in AssetIds |-> 0]
    /\ misordered = FALSE
    /\ expect = [i \in AssetIds |-> NoPair]
    /\ churn = [i \in AssetIds |-> NoChurn]
    /\ freed = [i \in AssetIds |-> 0]
    /\ imported = NoImport
    /\ query = NoQuery

\* self.ref_sender.send(op)
send(op, i) ==
    /\ ref_chan' = Append(ref_chan, RefOp(op, i, nsent + 1))
    /\ nsent' = nsent + 1
    /\ expect' = IF l_pc = "idle" THEN expect ELSE [expect EXCEPT ![i] = NoPair]

\* self.ref_receiver.try_recv() taking the newest message instead of the oldest
try_recv_lifo ==
    IF ref_chan = <<>> THEN None
    ELSE Some([op |-> ref_chan[Len(ref_chan)],
               rest |-> SubSeq(ref_chan, 1, Len(ref_chan) - 1)])

\* self.ref_receiver.try_recv(): the oldest message and the channel after it
try_recv ==
    IF ref_chan = <<>> THEN None
    ELSE Some([op |-> Head(ref_chan), rest |-> Tail(ref_chan)])

\* the loop leaving although a message was received
drain_done_early == TRUE

\* `None => break`
drain_done == try_recv = None

\* Load Tracker, Increase: increment the count; on an asset that is not
\* tracked, or whose last load failed, request the import; an eviction mark is
\* withdrawn
tracker_add_asset_ref(t, i) ==
    LET fresh == \/ t.refs[i] = 0 /\ t.state[i] = "NotRequested"
                 \/ t.state[i] \in FailedStatus
    IN
    [t EXCEPT !.refs[i] = @ + 1,
              !.grace[i] = 0,
              !.state[i] = IF fresh THEN "Loading" ELSE @,
              !.requests[i] = IF fresh THEN @ + 1 ELSE @,
              !.pending[i] = IF fresh THEN TRUE ELSE @,
              !.orphan[i] = IF fresh THEN FALSE ELSE @]

\* Load Tracker, Decrease: decrement the count; on reaching 0 mark the asset
\* for grace-period eviction
tracker_decrease_asset_ref(t, i) ==
    IF t.refs[i] = 0 THEN t
    ELSE [t EXCEPT !.refs[i] = @ - 1,
                   !.grace[i] = IF t.refs[i] = 1 THEN 1 ELSE @]

\* the match arms with the Increase arm calling add_asset_ref twice
apply_ref_op_twice(t, op) ==
    IF op.op = "Increase"
    THEN tracker_add_asset_ref(tracker_add_asset_ref(t, op.id), op.id)
    ELSE tracker_decrease_asset_ref(t, op.id)

\* the match arms with the Decrease arm calling nothing
apply_ref_op_no_decrease(t, op) ==
    IF op.op = "Increase" THEN tracker_add_asset_ref(t, op.id) ELSE t

\* the match arms: Increase(id) => loader.add_asset_ref(id),
\* Decrease(id) => loader.decrease_asset_ref(id)
apply_ref_op(t, op) ==
    IF op.op = "Increase" THEN tracker_add_asset_ref(t, op.id)
    ELSE tracker_decrease_asset_ref(t, op.id)

\* Load Tracker, last step of a tick: an asset whose count stayed 0 through the
\* grace period is freed and becomes NotRequested; a fresh mark ages
evict(t) ==
    [t EXCEPT
       !.state = [i \in AssetIds |->
                    IF t.refs[i] = 0 /\ t.grace[i] = 2 /\ t.state[i] = "Loaded"
                    THEN "NotRequested" ELSE t.state[i]],
       !.handle = [i \in AssetIds |->
                    IF t.refs[i] = 0 /\ t.grace[i] = 2 /\ t.state[i] = "Loaded"
                    THEN 0 ELSE t.handle[i]],
       !.grace = [i \in AssetIds |->
                    IF t.refs[i] = 0 /\ t.grace[i] = 2 /\ t.state[i] = "Loaded" THEN 0
                    ELSE IF t.refs[i] = 0 /\ t.grace[i] = 1 THEN 2
                    ELSE t.grace[i]]]

\* AssetTypeStorage::free for every handle the tracker let go of between t and
\* u: the Arc moved into free is dropped
free(t, u) ==
    /\ held' = [a \in DOMAIN held |->
                  held[a] - Cardinality({i \in AssetIds :
                                           t.handle[i] = a /\ u.handle[i] = 0})]
    /\ freed' = [i \in AssetIds |->
                   IF t.handle[i] # 0 /\ u.handle[i] = 0
                   THEN id(t.handle[i]) + 1 ELSE freed[i]]

\* history of one applied op
note_applied(t, u, op) ==
    /\ misordered' = (misordered \/ op.n < applied_n[op.id])
    /\ applied_n' = [applied_n EXCEPT ![op.id] = op.n]
    /\ churn' = [churn EXCEPT ![op.id] =
                    IF op.op = "Decrease" /\ t.state[op.id] = "Loaded"
                       /\ t.refs[op.id] = 1 /\ u.refs[op.id] = 0
                    THEN [st |-> "zero", requests |-> t.requests[op.id],
                          handle |-> t.handle[op.id]]
                    ELSE IF op.op = "Increase" /\ @.st = "zero"
                    THEN [@ EXCEPT !.st = "back"]
                    ELSE @]

\* one iteration of the loop with the tracker's eviction run to its end right
\* after the op, instead of once per process call after the loop
recv_step_evict(r) ==
    LET u == apply_ref_op(loader, r.op) IN
    /\ ref_chan' = r.rest
    /\ loader' = evict(evict(u))
    /\ free(u, evict(evict(u)))
    /\ note_applied(loader, u, r.op)

\* one iteration of the loop that receives the op and calls nothing
recv_step_skip(r) ==
    /\ ref_chan' = r.rest
    /\ loader' = loader
    /\ UNCHANGED <<held, freed>>
    /\ note_applied(loader, loader, r.op)

\* one iteration of the loop with a Decrease that leaves no reference giving
\* up the import of an asset that is still Loading
recv_step_cancel(r) ==
    LET u == apply_ref_op(loader, r.op)
        i == r.op.id
        cancel == u.refs[i] = 0 /\ u.state[i] = "Loading" /\ u.pending[i]
    IN
    /\ ref_chan' = r.rest
    /\ loader' = IF cancel
                  THEN [u EXCEPT !.state[i] = "NotRequested", !.pending[i] = FALSE]
                  ELSE u
    /\ UNCHANGED <<held, freed>>
    /\ note_applied(loader, u, r.op)

\* one iteration of the loop in LoaderWithStorage::process
recv_step(r) ==
    LET u == apply_ref_op(loader, r.op) IN
    /\ ref_chan' = r.rest
    /\ loader' = u
    /\ UNCHANGED <<held, freed>>
    /\ note_applied(loader, u, r.op)

\* AssetTypeStorage::update_asset with the entry never reaching `processed`
storage_update_asset_lost(handle, data) ==
    UNCHANGED <<s_processed, s_nextEid>>

\* AssetTypeStorage::update_asset: the deserialized data is pushed onto
\* `processed` with a clone of the handle and tracker: None
storage_update_asset(handle, data) ==
    /\ s_processed' = Append(s_processed,
                             ProcessedAsset(s_nextEid, Ok(data), handle, None))
    /\ s_nextEid' = s_nextEid + 1

\* Load Tracker: a Loading asset whose handle the storage reports loaded
\* (AssetTypeStorage::is_loaded) becomes Loaded
mark_loaded(t) ==
    [t EXCEPT !.state = [i \in AssetIds |->
        IF t.state[i] = "Loading" /\ t.handle[i] # 0 /\ s_is_loaded(id(t.handle[i]))
        THEN "Loaded" ELSE t.state[i]]]

\* ------------------------------------------------------ new_loader.rs actions
\* add_asset_ref calling the Load Tracker itself instead of sending the op
add_asset_ref_direct ==
    /\ nsent < MaxOps
    /\ \E i \in AssetIds :
          /\ loader' = tracker_add_asset_ref(loader, i)
          /\ live' = [live EXCEPT ![i] = @ + 1]
    /\ nsent' = nsent + 1
    /\ UNCHANGED <<ref_chan, expect, l_pc, applied_n, misordered, churn, freed,
                   imported, query>>
    /\ UNCHANGED <<NotLoader, svars>>

\* add_asset_ref: a strong user handle comes to life (load or clone)
LAddRef ==
    /\ nsent < MaxOps
    /\ \E i \in AssetIds :
          /\ send("Increase", i)
          /\ live' = [live EXCEPT ![i] = @ + 1]
    /\ UNCHANGED <<loader, l_pc, applied_n, misordered, churn, freed, imported, query>>
    /\ UNCHANGED <<NotLoader, svars>>

\* decrease_asset_ref: a strong user handle is dropped
LDecRef ==
    /\ nsent < MaxOps
    /\ \E i \in AssetIds :
          /\ live[i] > 0
          /\ send("Decrease", i)
          /\ live' = [live EXCEPT ![i] = @ - 1]
    /\ UNCHANGED <<loader, l_pc, applied_n, misordered, churn, freed, imported, query>>
    /\ UNCHANGED <<NotLoader, svars>>

\* LoaderWithStorage::process is entered
LProcessBegin ==
    /\ l_pc = "idle"
    /\ s_pc = "idle"
    /\ l_pc' = "drain"
    /\ expect' = [i \in AssetIds |->
                     IF Len(OpsOf(ref_chan, i)) = 2
                        /\ OpsOf(ref_chan, i)[1].op = "Increase"
                        /\ OpsOf(ref_chan, i)[2].op = "Decrease"
                     THEN loader.refs[i] ELSE NoPair]
    /\ churn' = [i \in AssetIds |-> NoChurn]
    /\ imported' = NoImport
    /\ UNCHANGED <<ref_chan, loader, live, nsent, applied_n, misordered, freed,
                   query>>
    /\ UNCHANGED <<NotLoader, svars>>

\* try_recv returned Some(op)
LRecv ==
    /\ l_pc = "drain"
    /\ try_recv # None
    /\ recv_step(try_recv[1])
    /\ UNCHANGED <<l_pc, live, nsent, expect, imported, query>>
    /\ UNCHANGED <<s_assets, bitset, handles, handle_alloc, s_processed,
                   unused_handles, s_requeue, s_to_drop, arcs, weak, s_pc, skip,
                   sweep_i, s_nextEid, notes, s_outcome, zero_run, tick_end>>
    /\ UNCHANGED NotLoader

\* AssetTypeStorage::update_asset pushing the failed result as an entry
storage_update_asset_err_pushed(handle) ==
    /\ s_processed' = Append(s_processed,
                             ProcessedAsset(s_nextEid, Err, handle, None))
    /\ s_nextEid' = s_nextEid + 1

\* AssetTypeStorage::update_asset when bincode::deserialize fails: `?` returns
\* the error before anything is pushed
storage_update_asset_err(handle) ==
    UNCHANGED <<s_processed, s_nextEid>>

\* the handle a finished import of asset c is stored under: the one the
\* tracker holds for c, else one from AssetTypeStorage::allocate
handle_of(c) == IF loader.handle[c] = 0 THEN allocated ELSE loader.handle[c]

take_handle(c) ==
    IF loader.handle[c] = 0
    THEN /\ allocate
         /\ freed' = [i \in AssetIds |->
                        IF freed[i] = allocated_id + 1 THEN 0 ELSE freed[i]]
    ELSE UNCHANGED <<unused_handles, held, arcs, handle_alloc, freed>>

\* Load Tracker: the import of asset c is over, with the tracker's handle h
\* and load state st
import_done(t, c, h, st) ==
    [t EXCEPT !.handle[c] = h,
              !.dtype[c] = IF h # 0 THEN DATA_UUID(1) ELSE @,
              !.pending[c] = FALSE,
              !.state[c] = st,
              !.failures[c] = IF st \in FailedStatus THEN @ + 1 ELSE @,
              !.orphan[c] = (st = "Loading" /\ t.refs[c] = 0)]

\* history of an import coming to an end
import_of(c, how) ==
    [asset |-> c, outcome |-> how, processed |-> s_processed,
     assets |-> s_assets, bitset |-> bitset, handles |-> handles]

\* the loop is left and self.loader.process(&storages) begins: assets the
\* storage has committed become Loaded, and at most one import comes to an
\* end: its bytes are handed to the storage under the asset's handle and
\* either decode (the entry is pushed) or do not (Error), or the import
\* source does not know the asset (DoesNotExist)
LPoll ==
    /\ l_pc = "drain"
    /\ drain_done
    /\ \/ /\ loader' = mark_loaded(loader)
          /\ UNCHANGED imported
          /\ UNCHANGED <<unused_handles, held, arcs, handle_alloc, s_processed,
                         s_nextEid, freed>>
       \/ \E c \in AssetIds :
             /\ loader.state[c] = "Loading" /\ loader.pending[c]
             /\ \/ /\ s_nextEid <= MaxEntries
                   /\ take_handle(c)
                   /\ storage_update_asset(handle_of(c),
                                           [n |-> s_nextEid, passes |-> 0, bad |-> FALSE])
                   /\ loader' = import_done(mark_loaded(loader), c, handle_of(c),
                                            "Loading")
                   /\ imported' = import_of(c, "decoded")
                \/ /\ loader.failures[c] < MaxFailures
                   /\ take_handle(c)
                   /\ storage_update_asset_err(handle_of(c))
                   /\ loader' = import_done(mark_loaded(loader), c, handle_of(c),
                                            "Error")
                   /\ imported' = import_of(c, "decode_error")
                \/ /\ loader.failures[c] < MaxFailures
                   /\ loader' = import_done(mark_loaded(loader), c, loader.handle[c],
                                            "DoesNotExist")
                   /\ imported' = import_of(c, "unknown")
                   /\ UNCHANGED <<unused_handles, held, arcs, handle_alloc,
                                  s_processed, s_nextEid, freed>>
    /\ l_pc' = "evict"
    /\ UNCHANGED <<ref_chan, live, nsent, applied_n, misordered, expect, churn,
                   query>>
    /\ UNCHANGED <<s_assets, bitset, handles, s_requeue, s_to_drop, weak, s_pc,
                   skip, sweep_i, notes, s_outcome, zero_run, tick_end>>
    /\ UNCHANGED NotLoader

\* the loop is left and self.loader.process(&storages) reaches a finished
\* import whose data type id has no registered storage: WorldStorages looks it
\* up with .get(asset_type).expect("could not find asset type"), which panics
LPollUnregistered ==
    /\ l_pc = "drain"
    /\ drain_done
    /\ \E c \in AssetIds, t \in DataTypeIds :
          /\ loader.state[c] = "Loading" /\ loader.pending[c]
          /\ t \notin storages_by_data_uuid
          /\ imported' = import_of(c, "unregistered")
    /\ l_pc' = "panic"
    /\ UNCHANGED <<ref_chan, loader, live, nsent, applied_n, misordered, expect,
                   churn, freed, query>>
    /\ UNCHANGED <<NotLoader, svars>>

\* self.loader.process(&storages) ends with the eviction pass and returns
LEvict ==
    /\ l_pc = "evict"
    /\ loader' = evict(loader)
    /\ free(loader, evict(loader))
    /\ l_pc' = "idle"
    /\ tick_end' = TRUE
    /\ UNCHANGED <<ref_chan, live, nsent, applied_n, misordered, expect, churn, imported, query>>
    /\ UNCHANGED <<s_assets, bitset, handles, handle_alloc, s_processed,
                   unused_handles, s_requeue, s_to_drop, arcs, weak, s_pc, skip,
                   sweep_i, s_nextEid, notes, s_outcome, zero_run>>
    /\ UNCHANGED NotLoader

\* Load Tracker, get_asset(id): the data type and the handle of an asset
\* that has a handle
tracker_get_asset(t, i) ==
    IF t.handle[i] = 0 THEN None ELSE Some([data_type |-> t.dtype[i],
                                            asset_handle |-> t.handle[i]])

\* get_asset_handle with the type check left out
get_asset_handle_unchecked(i, A) ==
    LET maybe_asset == tracker_get_asset(loader, i) IN
    IF maybe_asset # None /\ storages_get(to_le_bytes(maybe_asset[1].data_type)) # None
    THEN Some(maybe_asset[1].asset_handle)
    ELSE None

\* LoaderWithStorage::get_asset_handle::<A>(id): Some(arc) stands for
\* Some(Handle::from_arc(asset_handle.clone()))
get_asset_handle(i, A) ==
    LET maybe_asset == tracker_get_asset(loader, i) IN
    IF maybe_asset # None
    THEN LET storage_type == storages_get(to_le_bytes(maybe_asset[1].data_type)) IN
         IF storage_type # None
         THEN IF to_le_bytes(ASSET_UUID(A)) # storage_type[1].asset_uuid
              THEN None
              ELSE Some(maybe_asset[1].asset_handle)
         ELSE None
    ELSE None

\* a caller asks for the typed handle of asset i; a returned Handle is a new
\* strong clone of the tracker's Arc, held by the caller
LGetAssetHandle ==
    /\ \E i \in AssetIds, A \in Types :
          LET r == get_asset_handle(i, A) IN
          /\ r # None => held[r[1]] < MaxHeld
          /\ query' = [asset |-> i, type |-> A, result |-> r]
          /\ held' = IF r = None THEN held ELSE [held EXCEPT ![r[1]] = @ + 1]
    /\ UNCHANGED <<ref_chan, loader, l_pc, live, nsent, applied_n, misordered,
                   expect, churn, freed, imported>>
    /\ UNCHANGED <<s_assets, bitset, handles, handle_alloc, s_processed,
                   unused_handles, s_requeue, s_to_drop, arcs, weak, s_pc, skip,
                   sweep_i, s_nextEid, notes, s_outcome, zero_run, tick_end>>
    /\ UNCHANGED NotLoader

\* a Handle returned by get_asset_handle is dropped
LDropHandle ==
    /\ \E a \in DOMAIN arcs :
          /\ held[a] > Cardinality({i \in AssetIds : loader.handle[i] = a})
          /\ held' = [held EXCEPT ![a] = @ - 1]
    /\ UNCHANGED lvars
    /\ UNCHANGED <<s_assets, bitset, handles, handle_alloc, s_processed,
                   unused_handles, s_requeue, s_to_drop, arcs, weak, s_pc, skip,
                   sweep_i, s_nextEid, notes, s_outcome, zero_run, tick_end>>
    /\ UNCHANGED NotLoader

\* ------------------------------------------- init_world and the container
\* AssetStorage::<A>::default(), by the ids its bitset holds and its
\* processed queue
AssetStorageDefault == [bitset |-> {}, processed |-> <<>>]

NoCall == [n |-> 0, type |-> <<>>, handle |-> 0, decoded |-> FALSE, outcome |-> "none"]

\* Resources::new(): no resource of any type
ResourcesInit ==
    /\ resources = [k \in Types |-> None]
    /\ res_before = [k \in Types |-> None]
    /\ inits = 0
    /\ res_call = NoCall

\* res.try_fetch::<AssetStorage<A>>() and res.insert(..) for asset type k
try_fetch(res, k) == res[k]
insert(res, k, r) == [res EXCEPT ![k] = Some(r)]

\* the create_storage closure inserting without looking
create_storage_always(k, res) == insert(res, k, AssetStorageDefault)

\* the create_storage closure of create_asset_type::<A>()
create_storage(k, res) ==
    IF try_fetch(res, k) = None THEN insert(res, k, AssetStorageDefault) ELSE res

\* the loop of init_world over the registered types still to visit
RECURSIVE init_world_from(_, _)
init_world_from(todo, res) ==
    IF todo = {} THEN res
    ELSE LET k == CHOOSE x \in todo : TRUE
         IN  init_world_from(todo \ {k}, create_storage(k, res))

\* LoaderWithStorage::init_world: storages_by_asset_uuid holds every type
\* submitted to the inventory
init_world(res) == init_world_from(Types, res)

\* LoaderWithStorage::init_world is called
RInitWorld ==
    /\ inits < MaxInits
    /\ l_pc = "idle"
    /\ resources' = init_world(resources)
    /\ res_before' = resources
    /\ inits' = inits + 1
    /\ UNCHANGED res_call
    /\ UNCHANGED <<qvars, svars, lvars>>

\* the host inserts the storage of a type itself: res.insert(AssetStorage::default())
RInsert ==
    /\ \E k \in Types :
          /\ resources[k] = None
          /\ resources' = insert(resources, k, AssetStorageDefault)
    /\ UNCHANGED <<res_before, inits, res_call>>
    /\ UNCHANGED <<qvars, svars, lvars>>

\* an asset is committed in the storage of a type that is in the container
\* (bitset.add(id), storage.rs)
RStore ==
    /\ \E k \in Types, i \in Ids :
          /\ resources[k] # None
          /\ i \notin resources[k][1].bitset
          /\ resources' = [resources EXCEPT
                              ![k] = Some([@[1] EXCEPT !.bitset = @ \cup {i}])]
    /\ UNCHANGED <<res_before, inits, res_call>>
    /\ UNCHANGED <<qvars, svars, lvars>>

\* the asset type number of a registered AssetType
type_of(t) == CHOOSE k \in Types : create_asset_type(k) = t

\* WorldStorages::update_asset(asset_type, handle, data): the storage is looked
\* up by the data type id (.expect panics on an unknown id), fetched from the
\* container (res.fetch panics when it is absent) and handed the bytes;
\* AssetStorage::update_asset pushes the decoded data with the handle and
\* tracker: None, or returns the decode error
world_update_asset(res, asset_type, handle, decodes) ==
    LET found == storages_get(asset_type) IN
    IF found = None THEN [res |-> res, outcome |-> "panic"]
    ELSE LET k == type_of(found[1]) IN
         IF try_fetch(res, k) = None THEN [res |-> res, outcome |-> "panic"]
         ELSE IF ~decodes THEN [res |-> res, outcome |-> "error"]
         ELSE [res |-> [res EXCEPT ![k] = Some([@[1] EXCEPT !.processed =
                          Append(@, ProcessedAsset(res_call.n + 1,
                                     Ok([n |-> res_call.n + 1, passes |-> 0, bad |-> FALSE]),
                                     handle, None))])],
               outcome |-> "pushed"]

\* the tracker hands the bytes of a finished import to WorldStorages::update_asset
RUpdateAsset ==
    /\ res_call.n < MaxCalls
    /\ \E d \in DataTypeIds, h \in Ids, decodes \in BOOLEAN :
          LET r == world_update_asset(resources, d, h, decodes) IN
          /\ resources' = r.res
          /\ res_call' = [n |-> res_call.n + 1, type |-> d, handle |-> h,
                          decoded |-> decodes, outcome |-> r.outcome]
    /\ UNCHANGED <<res_before, inits>>
    /\ UNCHANGED <<qvars, svars, lvars>>

ResourcesNext == RInitWorld \/ RInsert \/ RStore

\* finished imports handed to the storages the container holds
WorldNext == RInsert \/ RUpdateAsset

\* handle queries next to the other calls that need no process step
QueryNext == LGetAssetHandle \/ LDropHandle \/ LAddRef \/ LDecRef

\* the loader with the storage it feeds and the Processor of that storage
LoaderNext ==
    \/ LAddRef \/ LDecRef \/ LProcessBegin \/ LRecv \/ LPoll \/ LPollUnregistered
    \/ LEvict
    \/ SProcessBegin \/ SDrainPop \/ SDrainEnd \/ SSweepFind \/ SSweepRemove
    \/ SDropAll

vars == <<qvars, svars, lvars, rvars>>

Init == QueueInit /\ StorageInit /\ LoaderInit /\ ResourcesInit

Next == QueueNext

Spec == Init /\ [][Next]_vars

\* the bitset storage of storage.rs on its own
InitStorage == QueueStart(<<>>) /\ StorageInit /\ LoaderInit /\ ResourcesInit

SpecStorage == InitStorage /\ [][StorageNext]_vars

\* the bitset storage with clone_asset, in place of Handle::clone, among its
\* calls
CloneNext ==
    \/ SAllocate \/ SCloneAsset \/ SDrop \/ SDowngrade \/ SUpgrade \/ SEnqueue
    \/ SProcessBegin \/ SDrainPop \/ SDrainEnd \/ SSweepFind \/ SSweepRemove
    \/ SDropAll
SpecClone == InitStorage /\ [][CloneNext]_vars

\* LoaderWithStorage over a storage of storage.rs
InitLoader == QueueStart(<<>>) /\ StorageInit /\ LoaderInit /\ ResourcesInit

SpecLoader == InitLoader /\ [][LoaderNext]_vars

\* typed handle queries on a loader whose first n assets had an import of some
\* registered type that failed to decode: each holds a handle from the storage
\* of its type, with one user handle alive and no ref-op pending
InitQuery ==
    /\ QueueStart(<<>>)
    /\ \E n \in 0..NumAssets : \E dt \in [1..n -> Types] :
          /\ arcs = [a \in 1..n |-> a - 1]
          /\ held = [a \in 1..n |-> 1]
          /\ handle_alloc = n
          /\ loader = [LoaderDefault EXCEPT
                         !.refs = [i \in AssetIds |-> IF i <= n THEN 1 ELSE 0],
                         !.state = [i \in AssetIds |-> IF i <= n THEN "Error"
                                                       ELSE "NotRequested"],
                         !.handle = [i \in AssetIds |-> IF i <= n THEN i ELSE 0],
                         !.requests = [i \in AssetIds |-> IF i <= n THEN 1 ELSE 0],
                         !.failures = [i \in AssetIds |-> IF i <= n THEN 1 ELSE 0],
                         !.dtype = [i \in AssetIds |-> IF i <= n THEN DATA_UUID(dt[i])
                                                       ELSE NO_UUID]]
          /\ live = [i \in AssetIds |-> IF i <= n THEN 1 ELSE 0]
          /\ nsent = n
          /\ applied_n = [i \in AssetIds |-> IF i <= n THEN i ELSE 0]
    /\ s_assets = <<>> /\ bitset = {} /\ handles = <<>> /\ s_processed = <<>>
    /\ unused_handles = <<>> /\ s_requeue = <<>> /\ s_to_drop = <<>>
    /\ weak = {} /\ s_pc = "idle" /\ skip = 0 /\ sweep_i = 0 /\ s_nextEid = 1
    /\ notes = [e \in Eids |-> <<>>]
    /\ s_outcome = [e \in Eids |-> [kind |-> "none", tracker |-> None]]
    /\ zero_run = [i \in Ids |-> 0]
    /\ tick_end = TRUE
    /\ ref_chan = <<>> /\ l_pc = "idle"
    /\ misordered = FALSE
    /\ expect = [i \in AssetIds |-> NoPair]
    /\ churn = [i \in AssetIds |-> NoChurn]
    /\ freed = [i \in AssetIds |-> 0]
    /\ imported = NoImport
    /\ query = NoQuery
    /\ ResourcesInit

SpecQuery == InitQuery /\ [][QueryNext]_vars

\* init_world on the host's resource container
SpecResources == InitLoader /\ [][ResourcesNext]_vars

\* WorldStorages over the host's resource container
SpecWorld == InitLoader /\ [][WorldNext]_vars

\* ------------------------------------------------------------------ claims
Count(q, e) == Cardinality({i \in DOMAIN q : q[i].eid = e})

\* w is v + 1 as a number (no wrap-around)
IsSucc(v, w) ==
    \/ w.hi = v.hi /\ w.lo = v.lo + 1
    \/ w.hi = v.hi + 1 /\ w.lo = 0 /\ v.lo = Limb - 1

\* C1: after update_asset(handle, asset) on a slot occupied with version v, the
\* old asset is the one new element of to_drop and the slot holds the new
\* asset with version v + 1; on an empty slot to_drop is as before and the
\* slot holds the new asset with version 1.
C1_UpdateAssetSlot ==
    last.op = "update_asset" =>
        LET h == last.handle IN
            /\ h \in DOMAIN assets
            /\ assets[h].asset = last.asset
            /\ IF h \in DOMAIN last.assets
               THEN /\ to_drop = Append(last.to_drop, last.assets[h].asset)
                    /\ IsSucc(last.assets[h].version, assets[h].version)
               ELSE /\ to_drop = last.to_drop
                    /\ assets[h].version = U32(1)

\* C2: immediately after update_asset(h, a): is_loaded(h), get(h) = Some(a),
\* and get_version(h) is strictly greater than before the call (None counting
\* as lower than every version).
C2_AfterUpdate ==
    last.op = "update_asset" =>
        LET h == last.handle
            now == get_version(h)
        IN  /\ is_loaded(h)
            /\ get(h) = Some(last.asset)
            /\ now # None
            /\ h \in DOMAIN last.assets => U32Less(last.assets[h].version, now[1])

\* C3: within one process call f is applied at most once to an entry; an entry
\* for which f returned Loading in this call sits on the requeue list, not on
\* the queue, until the call returns.
C3_OncePerCall ==
    /\ \A e \in Eids : applied[e] <= 1
    /\ pc = "process" =>
          \A e \in Eids : (applied[e] = 1 /\ outcome[e].kind = "Loading") =>
                Count(requeue, e) = 1 /\ Count(processed, e) = 0

\* a call in which an entry was requeued and the loop then went on to pop
\* another entry
C3_Witness ==
    /\ pc = "process"
    /\ last.op # "none"
    /\ \E e \in Eids : /\ applied[e] = 1 /\ outcome[e].kind = "Loading"
                       /\ last.eid # e

TwoPass(e) == enq[e].data.ok /\ enq[e].data.d.passes = 1 /\ ~enq[e].data.d.bad
Alone(e) ==
    /\ enq[e].handle \notin DOMAIN prior
    /\ \A e2 \in Eids \ {e} : enq[e2].handle # enq[e].handle

\* C4: an entry for which f returned Loading(d') is kept exactly once, with
\* data Ok(d') and the handle and tracker it was enqueued with: on the requeue
\* list during the call, on the queue once the call has returned; the step
\* leaves the storage as it was. For an intermediate that needs two passes
\* (and is the only load of its handle): the handle is not loaded before the
\* second pass and loaded after it, and the entry is pushed onto the queue
\* twice and f is applied to it twice.
C4_LoadingComesBack ==
    /\ \A e \in Eids : outcome[e].kind = "Loading" =>
          LET back == Processed(e, Ok(outcome[e].data), enq[e].handle, enq[e].tracker)
              onQueue == Cardinality({i \in DOMAIN processed : processed[i] = back})
              onRequeue == Cardinality({i \in DOMAIN requeue : requeue[i] = back})
          IN  /\ Count(processed, e) = onQueue
              /\ Count(requeue, e) = onRequeue
              /\ onQueue + onRequeue = 1
              /\ pc # "process" => onQueue = 1
    /\ last.op = "loading" => (assets = last.assets /\ to_drop = last.to_drop)
    /\ \A e \in Eids : (TwoPass(e) /\ Alone(e)) =>
          /\ fcalls[e] <= 2 /\ pushes[e] <= 2
          /\ fcalls[e] < 2 => ~is_loaded(enq[e].handle)
          /\ (fcalls[e] = 1 /\ pc # "process") => pushes[e] = 2
          /\ fcalls[e] = 2 =>
                /\ is_loaded(enq[e].handle)
                /\ get(enq[e].handle) = Some(e)
                /\ pushes[e] = 2
                /\ Count(processed, e) = 0 /\ Count(requeue, e) = 0

\* the two-pass entry after its second frame
C4_Witness ==
    \E e \in Eids : TwoPass(e) /\ Alone(e) /\ fcalls[e] = 2 /\ pc = "idle"

\* C5: when an entry's data is Err or f fails for it, the step leaves assets
\* and to_drop as they were, and the entry is gone: it is neither on the queue
\* nor on the requeue list afterwards.
C5_ErrorDropsEntry ==
    /\ last.op = "err" => (assets = last.assets /\ to_drop = last.to_drop)
    /\ \A e \in Eids : outcome[e].kind = "Err" =>
          Count(processed, e) = 0 /\ Count(requeue, e) = 0

\* a failed entry for a handle that holds an asset, after the call returned
C5_Witness ==
    \E e \in Eids : /\ outcome[e].kind = "Err" /\ pc = "idle"
                    /\ is_loaded(enq[e].handle)

\* C6: a processed entry that carries a tracker and finishes in a process call
\* has its tracker notified of the outcome in that call: success when f returns
\* Loaded, failure when the data is Err or f fails; an entry that returns
\* Loading produces no notification. (storage.rs; in processor.rs no entry
\* carries a tracker.)
C6_TrackerNotified ==
    \A e \in Eids :
        s_outcome[e].tracker # None =>
            /\ s_outcome[e].kind = "Loaded" => notes[e] = <<"success">>
            /\ s_outcome[e].kind = "Err" => notes[e] = <<"fail">>
            /\ s_outcome[e].kind = "Loading" => notes[e] = <<>>

\* the ops of kind op for asset i still in the ref-op channel
Pending(op, i) == Len(SelectSeq(ref_chan, LAMBDA o : o.id = i /\ o.op = op))

\* C7 (as stated): at every tick boundary, for every AssetId, the reference
\* count equals the live strong user handles plus the Increase ops still in
\* the channel minus the Decrease ops still in the channel.
C7_RefCountLiteral ==
    l_pc = "idle" =>
        \A i \in AssetIds :
            loader.refs[i] = live[i] + Pending("Increase", i) - Pending("Decrease", i)

\* C7 (amended): at every tick boundary, for every AssetId, the reference
\* count equals the live strong user handles minus the Increase ops still in
\* the channel plus the Decrease ops still in the channel; with an empty
\* channel the count equals the live strong handles.
C7_RefCount ==
    l_pc = "idle" =>
        \A i \in AssetIds :
            /\ loader.refs[i] = live[i] - Pending("Increase", i) + Pending("Decrease", i)
            /\ ref_chan = <<>> => loader.refs[i] = live[i]

\* a tick boundary with a counted asset and both kinds of op in flight for it
C7_Witness ==
    /\ l_pc = "idle"
    /\ \E i \in AssetIds :
          /\ loader.refs[i] >= 1
          /\ Pending("Increase", i) >= 1
          /\ Pending("Decrease", i) >= 1

\* C8: a clone followed by a drop (or a load followed by a drop), both ref-ops
\* sent before the same process call: after that call the asset's reference
\* count equals its value before the pair.
C8_PairNetZero ==
    l_pc = "idle" =>
        \A i \in AssetIds : expect[i] # NoPair => loader.refs[i] = expect[i]

\* a process call returned that found a clone-then-drop pair on a counted asset
C8_Witness ==
    /\ l_pc = "idle"
    /\ \E i \in AssetIds :
          expect[i] >= 1 /\ OpsOf(ref_chan, i) = <<>> /\ applied_n[i] >= 3

\* C9: for a single AssetId the ref-ops are applied in the order they were
\* sent: no op is applied before an op for the same asset sent earlier.
C9_SendOrder ==
    /\ ~misordered
    /\ \A k \in DOMAIN ref_chan : ref_chan[k].n > applied_n[ref_chan[k].id]

\* two ops of one asset were applied while a further op of it is in flight
C9_Witness ==
    \E i \in AssetIds :
        /\ loader.refs[i] = 2
        /\ OpsOf(ref_chan, i) # <<>>

\* C10: when a Decrease takes the count of a loaded asset to 0 and an Increase
\* for the same asset is applied in the same frame, the storage slot is not
\* freed, the handle is not released, the state stays Loaded and no new import
\* request is issued.
C10_NoChurn ==
    \A i \in AssetIds :
        churn[i].st = "back" =>
            /\ loader.state[i] = "Loaded"
            /\ loader.handle[i] # 0
            /\ loader.handle[i] = churn[i].handle
            /\ held[loader.handle[i]] >= 1
            /\ s_is_loaded(id(loader.handle[i]))
            /\ loader.requests[i] = churn[i].requests

\* a frame that applied such a Decrease and Increase has ended
C10_Witness ==
    /\ l_pc = "idle"
    /\ \E i \in AssetIds : churn[i].st = "back" /\ loader.refs[i] = 1

\* C11: once free has been called for an asset whose count stayed 0 through a
\* full tick, the slot entry is gone (is_loaded false, get None), the handle
\* id is back on the free list, and the load status is NotRequested.
C11_FreedSlotGone ==
    \A i \in AssetIds :
        freed[i] # 0 =>
            /\ ~s_is_loaded(freed[i] - 1)
            /\ \E k \in DOMAIN unused_handles : id(unused_handles[k]) = freed[i] - 1
            /\ loader.refs[i] = 0 => loader.state[i] = "NotRequested"

\* C12: an asset is evicted from storage (slot removed, asset moved to the
\* drop queue, handle id released) only if its reference count has been zero
\* for one full grace tick; a handle that is merely unique at the end of a
\* process call does not get its loaded asset evicted.
C12_EvictOnlyAfterGrace ==
    s_pc = "remove" => zero_run[id(handles[sweep_i])] = 2

\* the slot of asset i's handle is occupied: the handle the tracker holds, or
\* the one it passed to free and that has not been handed out again
Occupied(i) ==
    \/ loader.handle[i] # 0 /\ s_is_loaded(id(loader.handle[i]))
    \/ freed[i] # 0 /\ s_is_loaded(freed[i] - 1)

\* C13: at every tick boundary a LoadHandle has an occupied slot in its Asset
\* Storage if and only if the Load Tracker's state for the handle's AssetId
\* is Loaded.
C13_OccupiedIffLoaded ==
    (l_pc = "idle" /\ tick_end) =>
        \A i \in AssetIds : Occupied(i) <=> loader.state[i] = "Loaded"

\* the slot of Arc a has been freed: the sweep removed its handle, which put a
\* new Arc of the same id on unused_handles
Freed(a) == \E b \in DOMAIN arcs : b > a /\ arcs[b] = arcs[a]

QueueEntries == {s_processed[k] : k \in DOMAIN s_processed}
                    \cup {s_requeue[k] : k \in DOMAIN s_requeue}

\* C14: at every tick boundary the Processing Queue, requeued entries
\* included, holds no entry whose handle refers to a freed slot.
C14_NoQueuedFreed ==
    s_pc = "idle" => \A p \in QueueEntries : ~Freed(p.handle)

\* C15: every handle in the storage map has a version of at least 1, after any
\* number of update_asset calls.
C15_VersionAtLeastOne ==
    \A h \in DOMAIN assets : U32Less(U32(0), assets[h].version)

\* C16: for a handle that stays loaded, get_version never decreases, and it
\* strictly increases whenever the slot's asset is replaced.
C16_VersionMonotone ==
    [][\A h \in Handles :
          (is_loaded(h) /\ h \in DOMAIN assets') =>
              \/ assets'[h] = assets[h]
              \/ U32Less(assets[h].version, assets'[h].version)]_vars

\* C17: WeakHandle::upgrade returns Some if and only if a strong handle held
\* by a user exists for the weak handle's LoadHandle at the time of the call:
\* every upgrade that returns Some finds one, and wherever upgrade returns
\* None (strong count zero) there is none.
C17_UpgradeIffUserHandle ==
    [][/\ SUpgrade => \E a \in weak : held[a] > 0 /\ held'[a] = held[a] + 1
       /\ \A a \in weak : strong_count(a) = 0 => held[a] = 0]_vars

\* C18: a released id is handed out again by a later allocate before any
\* fresh id is minted, and between its release and its reuse is_loaded is
\* false and get returns None for it.
C18_ReleasedIdReused ==
    [][/\ (SAllocate /\ unused_handles # <<>>) =>
            /\ handle_alloc' = handle_alloc
            /\ unused_handles' = Tail(unused_handles)
            /\ held'[Head(unused_handles)] = 1
       /\ \A k \in DOMAIN unused_handles :
            /\ ~s_is_loaded(id(unused_handles[k]))
            /\ s_get(unused_handles[k]) = None]_vars

\* the step applies RefOp::Increase(i), the load of asset i, to the tracker
AppliesLoad(i) ==
    LRecv /\ try_recv[1].op.op = "Increase" /\ try_recv[1].op.id = i

\* C19: a load of an asset that is not tracked moves its status from
\* NotRequested to Loading and issues exactly one import request; a load of
\* an asset that is tracked (Loading or Loaded) only increments the reference
\* count and issues no further import request.
C19_LoadRequestsOnce ==
    [][\A i \in AssetIds :
          AppliesLoad(i) =>
              /\ loader'.refs[i] = loader.refs[i] + 1
              /\ loader.state[i] = "NotRequested" =>
                    /\ loader'.state[i] = "Loading"
                    /\ loader'.requests[i] = loader.requests[i] + 1
              /\ loader.state[i] \in {"Loading", "Loaded"} =>
                    /\ loader'.state[i] = loader.state[i]
                    /\ loader'.requests[i] = loader.requests[i]]_vars

C19_Witness ==
    \E i \in AssetIds : loader.refs[i] = 2 /\ loader.requests[i] = 1

\* C20: a load that ended in Error or DoesNotExist is recoverable: the user
\* handles stay, get returns None and the status is Error or DoesNotExist; a
\* later load increments the reference count, moves the state back to Loading
\* and requests the import again; bytes that then decode reach the storage,
\* and once committed the state becomes Loaded.
C20_FailedLoadRecovers ==
    [][\A i \in AssetIds :
          /\ loader.state[i] \in FailedStatus =>
                loader.handle[i] = 0 \/ s_get(loader.handle[i]) = None
          /\ (loader.state[i] \notin FailedStatus /\ loader'.state[i] \in FailedStatus) =>
                loader'.refs[i] = loader.refs[i] /\ live' = live
          /\ (AppliesLoad(i) /\ loader.state[i] \in FailedStatus) =>
                /\ loader'.refs[i] = loader.refs[i] + 1
                /\ loader'.state[i] = "Loading"
                /\ loader'.requests[i] = loader.requests[i] + 1
          /\ (loader.failures[i] > 0 /\ loader.state[i] = "Loading"
                /\ ~loader.pending[i]) =>
                /\ loader.handle[i] # 0
                /\ \/ \E p \in QueueEntries : p.handle = loader.handle[i]
                   \/ s_is_loaded(id(loader.handle[i]))
          /\ (loader.failures[i] > 0 /\ l_pc = "evict"
                /\ loader.handle[i] # 0 /\ s_is_loaded(id(loader.handle[i]))) =>
                loader.state[i] = "Loaded"]_vars

C20_Witness ==
    \E i \in AssetIds : loader.failures[i] > 0 /\ loader.state[i] = "Loaded"

\* C21: when the bytes delivered for an asset fail to deserialize in
\* update_asset, the call returns an error and process goes on without a
\* panic, nothing was pushed onto the processing queue, the storage's assets
\* are unchanged, and the asset's load state is Error.
C21_DecodeErrorLeavesStorage ==
    imported.outcome = "decode_error" =>
        /\ l_pc \in {"evict", "idle"}
        /\ loader.state[imported.asset] = "Error"
        /\ (l_pc = "evict" \/ tick_end) =>
              /\ s_processed = imported.processed
              /\ s_assets = imported.assets
              /\ bitset = imported.bitset
              /\ handles = imported.handles

C21_Witness ==
    imported.outcome = "decode_error" /\ l_pc = "idle" /\ tick_end

\* C22: when the import source supplies a data type id for which no type is
\* registered, the tick drops that entry and goes on: process does not stop,
\* no slot is allocated and nothing is enqueued.
C22_UnregisteredTypeDropped ==
    imported.outcome = "unregistered" =>
        /\ l_pc \in {"evict", "idle"}
        /\ l_pc = "evict" =>
              /\ s_processed = imported.processed
              /\ loader.handle[imported.asset] = 0

\* the asset type whose data uuid the import source gave for asset i
TypeOf(i) == CHOOSE k \in Types : DATA_UUID(k) = loader.dtype[i]

\* C23: a typed handle query for asset type A on an asset whose registered
\* asset type id differs from A's returns None, and Some when the ids match;
\* in the mismatch case no storage changes, no ref-op is sent and the
\* reference counts stay as they are.
C23_TypedQuery ==
    [][query' # query =>
          LET i == query'.asset
              A == query'.type
          IN  loader.handle[i] # 0 =>
                /\ ASSET_UUID(TypeOf(i)) = ASSET_UUID(A) =>
                      query'.result = Some(loader.handle[i])
                /\ ASSET_UUID(TypeOf(i)) # ASSET_UUID(A) =>
                      /\ query'.result = None
                      /\ UNCHANGED <<held, ref_chan, loader, s_assets, bitset,
                                     handles, s_processed, unused_handles>>]_vars

C23_Witness ==
    /\ query.asset # 0
    /\ loader.handle[query.asset] # 0
    /\ TypeOf(query.asset) # query.type
    /\ query.result = None

\* Arc a was handed out by allocate and no entry was committed through it yet
Uncommitted(a) ==
    /\ Occ(handles, a) = 0
    /\ Occ(unused_handles, a) = 0
    /\ ~Freed(a)

\* C24: allocate reserves a handle without inserting an asset: from allocate
\* until the first Loaded commit for the handle, is_loaded is false and get
\* returns None for it, also while entries for it sit on the processing queue.
C24_AllocatedNotLoaded ==
    \A a \in DOMAIN arcs :
        Uncommitted(a) => ~s_is_loaded(id(a)) /\ s_get(a) = None

\* the assets update_asset put into a slot so far, and those no longer there
Stored ==
    {prior[h].asset : h \in DOMAIN prior}
        \cup {outcome[e].asset : e \in {x \in Eids : outcome[x].kind = "Loaded"
                                                  /\ ~(panicked /\ last.eid = x)}}
Displaced == Stored \ {assets[h].asset : h \in DOMAIN assets}

\* C25: every asset displaced from a slot by update_asset appears exactly once
\* in to_drop, and is handed to the drop callback exactly once by the next
\* process_custom_drop, which leaves to_drop empty; nothing else is dropped.
C25_DisplacedDroppedOnce ==
    LET all == dropped \o to_drop IN
    /\ \A x \in Displaced : Cardinality({k \in DOMAIN all : all[k] = x}) = 1
    /\ \A k \in DOMAIN all : all[k] \in Displaced
    /\ pc = "idle" => to_drop = <<>>

C25_Witness ==
    /\ pc = "idle"
    /\ \E x \in Displaced : \E k \in DOMAIN dropped : dropped[k] = x

\* C26: a reader calling get_asset_with_version(h) next to an update_asset(h, a')
\* that replaces asset a at version v observes (a, v) or (a', v + 1): never
\* None, never a' with v, never a with v + 1. update_asset holds the storage
\* as &mut self, so a reader sees the storage before or after the whole call.
C26_NoTornRead ==
    [][\A h \in Handles :
          (is_loaded(h) /\ last'.op = "update_asset" /\ last'.handle = h) =>
              /\ get_asset_with_version(h)[1][1] # last'.asset
              /\ h \in DOMAIN assets'
              /\ assets'[h].asset = last'.asset
              /\ IsSucc(get_asset_with_version(h)[1][2], assets'[h].version)]_vars

\* asset i is Loading with no strong handle left, its import still in flight
InFlightUnreferenced(i) ==
    loader.state[i] = "Loading" /\ loader.pending[i] /\ loader.refs[i] = 0

\* C27: when the last strong handle of an asset is dropped while its import
\* is in flight, the import is not cancelled: the asset stays Loading, at the
\* drop and after it, until the import ends, bytes that arrive and decode are
\* pushed to the storage under the asset's handle, and the Loaded asset is
\* then evicted by the zero-reference path: it carries the eviction mark, is
\* never Loaded between two process calls without the aged mark, and the
\* eviction pass that finds it Loaded makes it NotRequested and drops the
\* tracker's handle, which leaves the storage's own handle unique.
C27_DroppedImportStillStored ==
    [][\A i \in AssetIds :
          /\ (loader.state[i] = "Loading" /\ loader.pending[i]
                /\ (loader.refs[i] = 0 \/ loader'.refs[i] = 0)) =>
                \/ loader'.state[i] = "Loading" /\ loader'.pending[i]
                \/ imported' # imported /\ imported'.asset = i
          /\ (InFlightUnreferenced(i) /\ imported' # imported
                /\ imported'.asset = i /\ imported'.outcome = "decoded") =>
                /\ loader'.state[i] = "Loading"
                /\ loader'.handle[i] # 0
                /\ Len(s_processed') = Len(s_processed) + 1
                /\ SubSeq(s_processed', 1, Len(s_processed)) = s_processed
                /\ s_processed'[Len(s_processed')].handle = loader'.handle[i]
                /\ s_processed'[Len(s_processed')].data # Err
          /\ (loader.orphan[i] /\ loader.refs[i] = 0) =>
                /\ loader.state[i] \in {"Loading", "Loaded"} => loader.grace[i] >= 1
                /\ (loader.state[i] = "Loaded" /\ l_pc = "idle") => loader.grace[i] = 2
                /\ (loader.state[i] = "Loading" /\ l_pc = "evict"
                      /\ s_is_loaded(id(loader.handle[i]))) => FALSE
                /\ (loader.state[i] = "Loaded" /\ loader.grace[i] = 2
                      /\ l_pc = "evict" /\ l_pc' = "idle") =>
                      /\ loader'.state[i] = "NotRequested"
                      /\ loader'.handle[i] = 0
                      /\ \E h \in DOMAIN arcs :
                            /\ h = loader.handle[i]
                            /\ held'[h] = held[h] - 1
                            /\ strong_count(h)' <= 1]_vars

C27_Witness ==
    \E i \in AssetIds :
        /\ loader.orphan[i]
        /\ loader.state[i] = "NotRequested"
        /\ loader.refs[i] = 0
        /\ freed[i] # 0

\* C28: add_asset_ref and decrease_asset_ref (handle clone and drop) only
\* append a RefOp to the channel: Increase(id) for a handle that comes to
\* life, Decrease(id) for one that is dropped, after the ops already there;
\* the Load Tracker is unchanged by them, and its reference counts and load
\* states change only inside a process call.
C28_RefOpsOnlySent ==
    [][/\ nsent' # nsent =>
             /\ loader' = loader
             /\ l_pc' = l_pc
             /\ UNCHANGED <<s_assets, bitset, handles, s_processed, unused_handles, held>>
             /\ Len(ref_chan') = Len(ref_chan) + 1
             /\ SubSeq(ref_chan', 1, Len(ref_chan)) = ref_chan
             /\ \E i \in AssetIds :
                   LET op == ref_chan'[Len(ref_chan')] IN
                   /\ op.id = i
                   /\ \/ op.op = "Increase" /\ live' = [live EXCEPT ![i] = @ + 1]
                      \/ op.op = "Decrease" /\ live' = [live EXCEPT ![i] = @ - 1]
       /\ (loader'.refs # loader.refs \/ loader'.state # loader.state) =>
             /\ l_pc \in {"drain", "evict"}
             /\ nsent' = nsent
             /\ live' = live]_vars

C28_Witness ==
    \E i \in AssetIds :
        /\ l_pc = "idle"
        /\ live[i] = 0
        /\ Len(OpsOf(ref_chan, i)) = 2
        /\ loader.refs[i] = 0
        /\ loader.state[i] = "NotRequested"

C30_InitWorldKeepsStorages ==
    [][inits' # inits =>
          /\ \A k \in Types :
                /\ resources[k] = None => resources'[k] = Some(AssetStorageDefault)
                /\ resources[k] # None => resources'[k] = resources[k]
          /\ init_world(resources') = resources']_vars

\* a second init_world call that found a storage holding an asset
C30_Witness ==
    /\ inits = 2
    /\ \E k \in Types :
          /\ res_before[k] # None
          /\ res_before[k][1].bitset # {}
          /\ resources[k] = res_before[k]

\* C31: an asset displaced by a replacement during a tick is destroyed by the
\* end of that tick: update_asset destroys nothing itself and puts the old
\* asset at the end of to_drop, the process_custom_drop that ends
\* Processor::run hands all of to_drop to the drop callback, and when run has
\* returned to_drop is empty.
C31_DroppedByEndOfTick ==
    [][/\ (pc = "process" /\ last'.op = "update_asset" /\ fcalls' # fcalls) =>
             /\ dropped' = dropped
             /\ IF last'.handle \in DOMAIN assets
                THEN to_drop' = Append(to_drop, assets[last'.handle].asset)
                ELSE to_drop' = to_drop
       /\ (pc = "drop" /\ pc' = "idle") =>
             /\ dropped' = dropped \o to_drop
             /\ to_drop' = <<>>
       /\ pc' = "idle" => to_drop' = <<>>
       /\ dropped' # dropped => (pc = "drop" /\ pc' = "idle")]_vars

\* a run that has returned after two replacements in the same slot
C31_Witness ==
    /\ pc = "idle"
    /\ Len(dropped) = 2
    /\ \E e1, e2 \in Eids : e1 # e2 /\ enq[e1].handle = enq[e2].handle
          /\ fcalls[e1] = 1 /\ fcalls[e2] = 1 /\ pushes[e1] = 1 /\ pushes[e2] = 1

\* C32: in one process call every ref-op that was on the channel when the
\* call started is applied to the tracker before the import source is polled
\* and before a completed import is allocated or pushed: while the loop
\* drains, each step takes the oldest op and nothing is allocated, pushed or
\* completed; the step that polls finds the channel empty and every count
\* equal to the number of live handles; an import ends only in that step.
C32_DrainBeforePoll ==
    [][/\ (l_pc = "drain" /\ l_pc' = "drain") =>
             /\ UNCHANGED <<s_processed, s_nextEid, arcs, held, handle_alloc,
                            unused_handles, imported>>
             /\ loader'.handle = loader.handle
             /\ loader'.dtype = loader.dtype
             /\ ref_chan' # ref_chan =>
                   \/ nsent' # nsent
                   \/ ref_chan # <<>> /\ ref_chan' = Tail(ref_chan)
       /\ (l_pc = "drain" /\ l_pc' # "drain") =>
             /\ ref_chan = <<>>
             /\ \A i \in AssetIds : loader.refs[i] = live[i]
       /\ (imported' # imported /\ imported'.outcome # "none") =>
             (l_pc = "drain" /\ l_pc' # "drain")]_vars

\* a call that began with two ops on the channel has applied them and then seen
\* an import decode
C32_Witness ==
    /\ l_pc = "evict"
    /\ imported.outcome = "decoded"
    /\ \E i \in AssetIds : expect[i] # NoPair

\* C33: a completed import with data type id d whose bytes decode produces
\* exactly one processing-queue entry, at the end of the queue of the storage
\* registered for d and on no other type's queue, carrying the handle it was
\* called with and no tracker; no storage changes otherwise.
C33_OneEntryOnRegisteredQueue ==
    [][(res_call'.n # res_call.n /\ res_call'.decoded
          /\ res_call'.type \in storages_by_data_uuid) =>
          LET k == CHOOSE x \in Types : to_le_bytes(DATA_UUID(x)) = res_call'.type IN
          resources[k] # None =>
             /\ res_call'.outcome = "pushed"
             /\ resources'[k] # None
             /\ LET q == resources[k][1].processed
                    q2 == resources'[k][1].processed
                IN  /\ Len(q2) = Len(q) + 1
                    /\ SubSeq(q2, 1, Len(q)) = q
                    /\ q2[Len(q2)].handle = res_call'.handle
                    /\ q2[Len(q2)].tracker = None
                    /\ q2[Len(q2)].data.ok
             /\ resources'[k][1].bitset = resources[k][1].bitset
             /\ \A k2 \in Types \ {k} : resources'[k2] = resources[k2]]_vars

\* an import of the second type pushed onto the second storage's queue while
\* the first storage is in the container too
C33_Witness ==
    /\ res_call.outcome = "pushed"
    /\ res_call.type = to_le_bytes(DATA_UUID(2))
    /\ resources[1] # None
    /\ resources[2] # None
    /\ Len(resources[2][1].processed) >= 1

\* C34: once the unique-handle sweep has freed an id, every weak handle made
\* from the old handle is dead: under any interleaving of WeakHandle::upgrade
\* with the sweep, no strong handle lives on an Arc whose asset the sweep
\* removed and whose id it put on the unused list, and upgrade on such an Arc
\* returns None.
C34_FreedHandleDead ==
    \A a \in DOMAIN arcs :
        Freed(a) => held[a] = 0 /\ strong_count(a) = 0

\* Arc a was handed out by allocate and a strong Handle on it is alive
LiveAllocated(a) == strong_count(a) > 0 /\ Occ(unused_handles, a) = 0

\* C35: allocate never returns an id that is in use: after any sequence of
\* allocate, process and handle drops, no two live handles obtained from
\* distinct allocate calls carry the same id, and the id allocate returns is
\* not loaded at that moment.
C35_AllocateFreshId ==
    [][/\ SAllocate => ~s_is_loaded(allocated_id)
       /\ \A a, b \in DOMAIN arcs' :
             (a # b /\ LiveAllocated(a)' /\ LiveAllocated(b)') => arcs'[a] # arcs'[b]]_vars

\* C36: in the bitset storage, after every process_custom_drop and
\* clone_asset, an id is in the loaded bitset if and only if the handles list
\* holds exactly one handle with that id.
C36_BitsetMatchesHandles ==
    s_pc = "idle" =>
        \A i \in Ids :
            s_is_loaded(i) <=>
                Cardinality({k \in DOMAIN handles : id(handles[k]) = i}) = 1

\* no entry processed in the current call was pushed while the call ran
NoProducerInCall == \A e \in Eids : applied[e] > 0 => Count(snapshot, e) = 1

\* the entries of the current call for which f returned Loading, as they go
\* back: in the order in which they were processed, with the data f returned
LoadingBack ==
    LET sel == SelectSeq(snapshot, LAMBDA p : outcome[p.eid].kind = "Loading")
    IN  [k \in 1..Len(sel) |->
            Processed(sel[k].eid, Ok(outcome[sel[k].eid].data), sel[k].handle,
                      sel[k].tracker)]

\* C37: after every ProcessingQueue.process call with no concurrent
\* producers the requeue list is empty and the queue holds exactly the
\* entries for which f returned Loading in that call, in the order in which
\* they were processed.
C37_QueueAfterProcess ==
    [][(pc = "process" /\ pc' = "drop" /\ NoProducerInCall) =>
          /\ requeue' = <<>>
          /\ processed' = LoadingBack]_vars

\* a call that began on a full queue has returned two entries to the queue
C37_Witness ==
    /\ pc = "drop"
    /\ last.op = "none"
    /\ NoProducerInCall
    /\ Len(snapshot) = MaxEntries
    /\ Len(processed) = 2
    /\ processed = LoadingBack

\* w is v + k as a number (no wrap-around)
RECURSIVE IsPlus(_, _, _)
IsPlus(v, k, w) ==
    IF k = 0 THEN v = w
    ELSE v # U32Max /\ IsPlus(WrappingInc(v), k - 1, w)

\* the entries for handle h drained by the current call, and the last of them
\* in enqueue order
DrainedFor(h) == {e \in Eids : applied[e] = 1 /\ enq[e].handle = h}
LastOf(S) == CHOOSE e \in S : \A x \in S : x <= e

\* C38: when one process call drains k entries for the same handle that all
\* return Loaded, they are committed in enqueue order: the slot ends with the
\* asset of the last enqueued entry, its version has increased by exactly k
\* (ending at k for a slot that was empty), and every earlier asset is on
\* to_drop. Stated for the first call of a run, when it has left the loop.
C38_CommitsInEnqueueOrder ==
    (pc = "drop" /\ dropped = <<>> /\ fcalls = applied) =>
        \A h \in Handles :
            LET S == DrainedFor(h)
                k == Cardinality(S)
                v0 == IF h \in DOMAIN prior THEN prior[h].version ELSE U32(0)
                earlier == {outcome[e].asset : e \in S \ {LastOf(S)}}
                              \cup {prior[x].asset : x \in DOMAIN prior \cap {h}}
            IN  (S # {} /\ \A e \in S : outcome[e].kind = "Loaded") =>
                    /\ is_loaded(h)
                    /\ get(h) = Some(outcome[LastOf(S)].asset)
                    /\ IsPlus(v0, k, assets[h].version)
                    /\ \A x \in earlier :
                          Cardinality({i \in DOMAIN to_drop : to_drop[i] = x}) = 1

\* C39: update_asset(h, a) changes only the slot of h: for every other handle
\* h2, occupancy, asset and version are the same after the call as before.
C39_UpdateAssetFrame ==
    [][(last'.op = "update_asset" /\ fcalls' # fcalls) =>
          \A h2 \in Handles \ {last'.handle} :
              /\ (h2 \in DOMAIN assets') <=> (h2 \in DOMAIN assets)
              /\ h2 \in DOMAIN assets =>
                    /\ assets'[h2].asset = assets[h2].asset
                    /\ assets'[h2].version = assets[h2].version]_vars

\* update_asset has run for one handle while another handle's slot was
\* occupied, and that slot is as it was before the call
C39_Witness ==
    /\ last.op = "update_asset"
    /\ \E h2 \in Handles \ {last.handle} :
          /\ h2 \in DOMAIN last.assets
          /\ h2 \in DOMAIN assets
          /\ assets[h2] = last.assets[h2]

====
